---- MODULE Spec2Model ----
(***************************************************************************)
(* LanguageController (src/features/language/LanguageController.cpp):      *)
(* the language selector of a Qt application.  It keeps the current        *)
(* language code, persists the user's choice in QSettings under the key    *)
(* "language", and installs the translation resource app_<code>.qm,        *)
(* falling back from the requested language to the system language and     *)
(* then to English.                                                        *)
(*                                                                         *)
(* The controller is single threaded and every operation runs to           *)
(* completion, so each public operation is one action.  The collaborators  *)
(* (QSettings, QLocale, the Qt resource store, the application's installed *)
(* translator) are state variables.  What one call did (signals emitted,   *)
(* resources tried, settings written, locale queries) is recorded in       *)
(* emitted, attempts, writes and localeQueries, which are reset at the     *)
(* start of every call; call holds the call's name, argument and the       *)
(* state it started from.                                                  *)
(***************************************************************************)
EXTENDS Integers, Sequences, FiniteSets, TLC

VARIABLES
    s_instance,            \* "nullptr" or "this": LanguageController::s_instance
    m_availableLanguages,  \* QStringList
    m_currentLanguage,     \* QString
    settings,              \* value of QSettings key "language" ("" when absent)
    installed,             \* resource path of the installed translator, "" when none
    systemLocale,          \* QLocale::system().name()
    store,                 \* resource paths QTranslator::load can load
    call,                  \* the last call: name, argument, state at entry
    emitted,               \* signals emitted by the last call, in order
    attempts,              \* resource activations tried by the last call, in order,
                           \* each with its result and the translator it left installed
    writes,                \* values written to QSettings by the last call, in order
    localeQueries,         \* number of QLocale::system() queries of the last call
    lastChange             \* argument of the latest request that passed validation, "" if none

vars == <<s_instance, m_availableLanguages, m_currentLanguage, settings,
          installed, systemLocale, store, call, emitted, attempts, writes,
          localeQueries, lastChange>>

---------------------------------------------------------------------------
(* Values of the environment and of the inputs.                            *)

\* Locale names the operating system may report.
Locales == {"en_US", "es_ES", "fr_FR", "de_DE", "C"}

\* Language codes for which the binary may bundle a translation resource.
ResourceCodes == {"en", "es", "fr", "de"}

\* Values the settings file may hold under "language" at first start.
PrefValues == {"", "en", "es", "fr", "de"}

\* Arguments passed to setCurrentLanguage.
Requests == {"", "en", "es", "fr", "de", "EN"}

NoTranslator == ""

---------------------------------------------------------------------------
(* Helpers for Qt's string and list operations.                            *)

\* QString::left(n)
Left(str, n) == IF Len(str) <= n THEN str ELSE SubSeq(str, 1, n)

\* QStringList::contains
Contains(list, str) == \E i \in 1..Len(list) : list[i] = str

\* QStringList::join
RECURSIVE Join(_, _)
Join(list, sep) ==
    IF Len(list) = 0 THEN ""
    ELSE IF Len(list) = 1 THEN list[1]
    ELSE list[1] \o sep \o Join(Tail(list), sep)

\* QString(":/translations/app_%1.qm").arg(language)
ResourcePath(language) == ":/translations/app_" \o language \o ".qm"

\* QString("Unsupported language. Available languages: %1").arg(availableList)
UnsupportedReason(list) ==
    "Unsupported language. Available languages: " \o Join(list, ", ")

EmptyReason == "Empty language code provided"

---------------------------------------------------------------------------
(* The controller's functions.  Each takes and returns the record s of     *)
(* everything a call can change:                                           *)
(*   avail, cur            m_availableLanguages, m_currentLanguage         *)
(*   settings, installed   the collaborators                               *)
(*   emitted, attempts, writes, localeQueries   what the call did so far   *)
(* systemLocale and store do not change during a call.                     *)

\* emit <signal>(...), issued by function by; cur and saved are what a slot
\* connected directly to the signal reads at that moment.
Emit(s, by, sig, language, reason) ==
    [s EXCEPT !.emitted = Append(@, [sig |-> sig, by |-> by,
                                     language |-> language, reason |-> reason,
                                     cur |-> s.cur, saved |-> s.settings])]

\* QLocale::system().name().left(2)
SystemLang(s) ==
    [s |-> [s EXCEPT !.localeQueries = @ + 1], lang |-> Left(systemLocale, 2)]

\* Mutant: the old translator stays installed when the load fails.
tryLoadLanguage_KeepsOld(s, language) ==
    LET resourcePath == ResourcePath(language)
        ok == resourcePath \in store
        left == IF ok THEN resourcePath ELSE s.installed
    IN  [s  |-> [s EXCEPT !.installed = left,
                          !.attempts = Append(@, [language |-> language, ok |-> ok,
                                                  left |-> left])],
         ok |-> ok]

\* bool LanguageController::tryLoadLanguage(const QString &language)
tryLoadLanguage(s, language) ==
    LET removed == [s EXCEPT !.installed = NoTranslator]
        resourcePath == ResourcePath(language)
        ok == resourcePath \in store
        left == IF ok THEN resourcePath ELSE removed.installed
    IN  [s  |-> [removed EXCEPT !.installed = left,
                                !.attempts = Append(@, [language |-> language, ok |-> ok,
                                                        left |-> left])],
         ok |-> ok]

\* The tail of loadLanguage: the final fallback to English.
loadEnglish(s, language) ==
    IF language # "en"
    THEN LET r == tryLoadLanguage(s, "en")
         IN  IF r.ok
             THEN Emit([r.s EXCEPT !.cur = "en"], "loadLanguage",
                       "currentLanguageChanged", "", "")
             ELSE r.s
    ELSE s

\* Mutant: a fallback hop changes m_currentLanguage without emitting.
loadLanguage_SilentHop(s, language) ==
    LET r1 == tryLoadLanguage(s, language)
    IN  IF r1.ok THEN r1.s
        ELSE LET q == SystemLang(r1.s)
                 r2 == tryLoadLanguage(q.s, q.lang)
             IN  IF language # q.lang /\ r2.ok
                 THEN [r2.s EXCEPT !.cur = q.lang]
                 ELSE LET s3 == IF language # q.lang THEN r2.s ELSE q.s
                          r3 == tryLoadLanguage(s3, "en")
                      IN  IF language # "en"
                          THEN IF r3.ok THEN [r3.s EXCEPT !.cur = "en"] ELSE r3.s
                          ELSE s3

\* Mutant: when every load fails the current language is reset to English.
loadLanguage_ResetsOnFailure(s, language) ==
    LET r1 == tryLoadLanguage(s, language)
    IN  IF r1.ok THEN r1.s
        ELSE LET q == SystemLang(r1.s)
                 r2 == tryLoadLanguage(q.s, q.lang)
             IN  IF language # q.lang /\ r2.ok
                 THEN Emit([r2.s EXCEPT !.cur = q.lang], "loadLanguage",
                           "currentLanguageChanged", "", "")
                 ELSE LET s3 == IF language # q.lang THEN r2.s ELSE q.s
                          s4 == loadEnglish(s3, language)
                      IN  IF s4.installed = NoTranslator
                          THEN [s4 EXCEPT !.cur = "en"]
                          ELSE s4

\* Mutant: a fallback hop also persists the language it lands on.
loadLanguage_PersistsHop(s, language) ==
    LET r1 == tryLoadLanguage(s, language)
    IN  IF r1.ok THEN r1.s
        ELSE LET q == SystemLang(r1.s)
                 r2 == tryLoadLanguage(q.s, q.lang)
             IN  IF language # q.lang /\ r2.ok
                 THEN Emit([r2.s EXCEPT !.cur = q.lang, !.settings = q.lang,
                                        !.writes = Append(@, q.lang)],
                           "loadLanguage", "currentLanguageChanged", "", "")
                 ELSE loadEnglish(IF language # q.lang THEN r2.s ELSE q.s, language)

\* Mutant: after a total failure the requested language is tried once more.
loadLanguage_Retries(s, language) ==
    LET r1 == tryLoadLanguage(s, language)
    IN  IF r1.ok THEN r1.s
        ELSE LET q == SystemLang(r1.s)
                 r2 == tryLoadLanguage(q.s, q.lang)
             IN  IF language # q.lang /\ r2.ok
                 THEN Emit([r2.s EXCEPT !.cur = q.lang], "loadLanguage",
                           "currentLanguageChanged", "", "")
                 ELSE LET s4 == loadEnglish(IF language # q.lang THEN r2.s ELSE q.s,
                                            language)
                      IN  IF s4.installed = NoTranslator
                          THEN tryLoadLanguage(s4, language).s
                          ELSE s4

\* Mutant: a fallback hop installs the fallback but keeps m_currentLanguage.
loadLanguage_HopKeepsCurrent(s, language) ==
    LET r1 == tryLoadLanguage(s, language)
    IN  IF r1.ok THEN r1.s
        ELSE LET q == SystemLang(r1.s)
                 r2 == tryLoadLanguage(q.s, q.lang)
             IN  IF language # q.lang /\ r2.ok
                 THEN Emit(r2.s, "loadLanguage", "currentLanguageChanged", "", "")
                 ELSE loadEnglish(IF language # q.lang THEN r2.s ELSE q.s, language)

\* Mutant: a fallback hop emits before it updates m_currentLanguage.
loadLanguage_EmitsBeforeUpdate(s, language) ==
    LET r1 == tryLoadLanguage(s, language)
    IN  IF r1.ok THEN r1.s
        ELSE LET q == SystemLang(r1.s)
                 r2 == tryLoadLanguage(q.s, q.lang)
             IN  IF language # q.lang /\ r2.ok
                 THEN [Emit(r2.s, "loadLanguage", "currentLanguageChanged", "", "")
                          EXCEPT !.cur = q.lang]
                 ELSE loadEnglish(IF language # q.lang THEN r2.s ELSE q.s, language)

\* Mutant: the system language is tried even when it is the requested one.
loadLanguage_NoShortCircuit(s, language) ==
    LET r1 == tryLoadLanguage(s, language)
    IN  IF r1.ok THEN r1.s
        ELSE LET q == SystemLang(r1.s)
                 r2 == tryLoadLanguage(q.s, q.lang)
             IN  IF r2.ok
                 THEN Emit([r2.s EXCEPT !.cur = q.lang], "loadLanguage",
                           "currentLanguageChanged", "", "")
                 ELSE loadEnglish(r2.s, language)

\* void LanguageController::loadLanguage(const QString &language)
\* (language != systemLang && tryLoadLanguage(systemLang)) short-circuits: the
\* system language is tried only when it differs from language.
loadLanguage(s, language) ==
    LET r1 == tryLoadLanguage(s, language)
    IN  IF r1.ok THEN r1.s
        ELSE LET q == SystemLang(r1.s)
                 r2 == tryLoadLanguage(q.s, q.lang)
             IN  IF language # q.lang /\ r2.ok
                 THEN Emit([r2.s EXCEPT !.cur = q.lang], "loadLanguage",
                           "currentLanguageChanged", "", "")
                 ELSE loadEnglish(IF language # q.lang THEN r2.s ELSE q.s, language)

\* Mutant: the system locale is looked at before the saved preference.
initializeLanguage_LocaleFirst(s) ==
    LET savedLanguage == s.settings
        q == SystemLang(s)
    IN  IF Contains(s.avail, q.lang)
        THEN [s |-> q.s, language |-> q.lang]
        ELSE IF savedLanguage # "" /\ Contains(s.avail, savedLanguage)
        THEN [s |-> q.s, language |-> savedLanguage]
        ELSE [s |-> q.s, language |-> "en"]

\* QString LanguageController::initializeLanguage()
initializeLanguage(s) ==
    LET savedLanguage == s.settings
    IN  IF savedLanguage # "" /\ Contains(s.avail, savedLanguage)
        THEN [s |-> s, language |-> savedLanguage]
        ELSE LET q == SystemLang(s)
             IN  IF Contains(s.avail, q.lang)
                 THEN [s |-> q.s, language |-> q.lang]
                 ELSE [s |-> q.s, language |-> "en"]

\* LanguageController::LanguageController(QObject *parent)
Constructor(s) ==
    LET s1 == [s EXCEPT !.avail = <<"en", "es", "fr">>]
        i  == initializeLanguage(s1)
        s2 == [i.s EXCEPT !.cur = i.language]
    IN  loadLanguage(s2, s2.cur)

\* QStringList LanguageController::availableLanguages() const
availableLanguages(s) == s.avail

\* Mutant: the chosen language is moved to the front of the list.
changeLanguage_ReordersList(s, language) ==
    LET rest == SelectSeq(s.avail, LAMBDA c : c # language)
        s1 == [s EXCEPT !.cur = language, !.avail = <<language>> \o rest]
        s2 == [s1 EXCEPT !.settings = language, !.writes = Append(@, language)]
        s3 == loadLanguage(s2, language)
        s4 == Emit(s3, "setCurrentLanguage", "currentLanguageChanged", "", "")
    IN  Emit(s4, "setCurrentLanguage", "languageChanged", "", "")

\* The part of setCurrentLanguage after validation (lines 61-73).
changeLanguage(s, language) ==
    LET s1 == [s EXCEPT !.cur = language]
        s2 == [s1 EXCEPT !.settings = language, !.writes = Append(@, language)]
        s3 == loadLanguage(s2, language)
        s4 == Emit(s3, "setCurrentLanguage", "currentLanguageChanged", "", "")
    IN  Emit(s4, "setCurrentLanguage", "languageChanged", "", "")

\* Mutant: the change is not saved to the settings.
setCurrentLanguage_NoPersist(s, language) ==
    IF language = ""
    THEN Emit(s, "setCurrentLanguage", "languageLoadFailed", language, EmptyReason)
    ELSE IF ~Contains(s.avail, language)
    THEN Emit(s, "setCurrentLanguage", "languageLoadFailed", language,
              UnsupportedReason(s.avail))
    ELSE IF s.cur = language
    THEN s
    ELSE LET s3 == loadLanguage([s EXCEPT !.cur = language], language)
             s4 == Emit(s3, "setCurrentLanguage", "currentLanguageChanged", "", "")
         IN  Emit(s4, "setCurrentLanguage", "languageChanged", "", "")

\* Mutant: the empty-input branch reports the failure but does not return.
setCurrentLanguage_EmptyFallsThrough(s, language) ==
    LET s0 == IF language = ""
              THEN Emit(s, "setCurrentLanguage", "languageLoadFailed", language,
                        EmptyReason)
              ELSE s
    IN  IF ~Contains(s0.avail, language)
        THEN Emit(s0, "setCurrentLanguage", "languageLoadFailed", language,
                  UnsupportedReason(s0.avail))
        ELSE IF s0.cur = language
        THEN s0
        ELSE changeLanguage(s0, language)

\* Mutant: an unsupported code is reported but the change goes ahead.
setCurrentLanguage_UnsupportedProceeds(s, language) ==
    IF language = ""
    THEN Emit(s, "setCurrentLanguage", "languageLoadFailed", language, EmptyReason)
    ELSE LET s0 == IF ~Contains(s.avail, language)
                   THEN Emit(s, "setCurrentLanguage", "languageLoadFailed",
                             language, UnsupportedReason(s.avail))
                   ELSE s
         IN  IF s0.cur = language
             THEN s0
             ELSE changeLanguage(s0, language)

\* void LanguageController::setCurrentLanguage(const QString &language)
setCurrentLanguage(s, language) ==
    IF language = ""
    THEN Emit(s, "setCurrentLanguage", "languageLoadFailed", language, EmptyReason)
    ELSE IF ~Contains(s.avail, language)
    THEN Emit(s, "setCurrentLanguage", "languageLoadFailed", language,
              UnsupportedReason(s.avail))
    ELSE IF s.cur = language
    THEN s
    ELSE changeLanguage(s, language)

---------------------------------------------------------------------------
(* The state machine.                                                      *)

\* The record the functions work on, at the start of a call.
Entry ==
    [avail |-> m_availableLanguages, cur |-> m_currentLanguage,
     settings |-> settings, installed |-> installed,
     emitted |-> <<>>, attempts |-> <<>>, writes |-> <<>>, localeQueries |-> 0]

\* The call returns in state s.
Return(s) ==
    /\ m_availableLanguages' = s.avail
    /\ m_currentLanguage' = s.cur
    /\ settings' = s.settings
    /\ installed' = s.installed
    /\ emitted' = s.emitted
    /\ attempts' = s.attempts
    /\ writes' = s.writes
    /\ localeQueries' = s.localeQueries

CallRecord(op, arg) ==
    [op |-> op, arg |-> arg, cur |-> m_currentLanguage, saved |-> settings,
     installed |-> installed, systemLocale |-> systemLocale]

\* Before main() constructs the controller: no controller, no translator; the
\* settings file, the OS locale and the bundled resources are arbitrary.
Init ==
    /\ s_instance = "nullptr"
    /\ m_availableLanguages = <<>>
    /\ m_currentLanguage = ""
    /\ settings \in PrefValues
    /\ installed = NoTranslator
    /\ systemLocale \in Locales
    /\ store \in SUBSET {ResourcePath(c) : c \in ResourceCodes}
    /\ call = [op |-> "none", arg |-> "", cur |-> "", saved |-> settings,
               installed |-> NoTranslator, systemLocale |-> systemLocale]
    /\ emitted = <<>>
    /\ attempts = <<>>
    /\ writes = <<>>
    /\ localeQueries = 0
    /\ lastChange = ""

\* main(): LanguageController languageController;
Construct ==
    /\ s_instance = "nullptr"
    /\ s_instance' = "this"
    /\ call' = CallRecord("construct", "")
    /\ Return(Constructor(Entry))
    /\ UNCHANGED <<systemLocale, store, lastChange>>

\* The UI writes the currentLanguage property.
SetCurrentLanguage(language) ==
    /\ s_instance = "this"
    /\ call' = CallRecord("setCurrentLanguage", language)
    /\ Return(setCurrentLanguage(Entry, language))
    /\ lastChange' = IF language # "" /\ Contains(m_availableLanguages, language)
                        /\ language # m_currentLanguage
                     THEN language
                     ELSE lastChange
    /\ UNCHANGED <<s_instance, systemLocale, store>>

\* LanguageController::~LanguageController() at the end of main(); the
\* QTranslator is a child of the controller and is deleted with it, which
\* removes it from the application.
Destroy ==
    /\ s_instance = "this"
    /\ s_instance' = "nullptr"
    /\ m_availableLanguages' = <<>>
    /\ m_currentLanguage' = ""
    /\ installed' = NoTranslator
    /\ call' = CallRecord("destroy", "")
    /\ emitted' = <<>>
    /\ attempts' = <<>>
    /\ writes' = <<>>
    /\ localeQueries' = 0
    /\ UNCHANGED <<settings, systemLocale, store, lastChange>>

\* The user changes the operating system's locale.
SystemLocaleChange ==
    /\ \E l \in Locales : l # systemLocale /\ systemLocale' = l
    /\ UNCHANGED <<s_instance, m_availableLanguages, m_currentLanguage, settings,
                   installed, store, call, emitted, attempts, writes,
                   localeQueries, lastChange>>

Next ==
    \/ Construct
    \/ \E language \in Requests : SetCurrentLanguage(language)
    \/ Destroy
    \/ SystemLocaleChange

Spec == Init /\ [][Next]_vars

---------------------------------------------------------------------------
(* Vocabulary of the properties.                                           *)

\* Language::isSupported(languageCode)
isSupported(languageCode) ==
    languageCode = "en" \/ languageCode = "es" \/ languageCode = "fr"

\* The constructor or a setCurrentLanguage call has returned.
Returned == s_instance = "this"

IsConstruct == Returned /\ call.op = "construct"

IsSet == Returned /\ call.op = "setCurrentLanguage"

\* The last call was a request for a supported language other than the current one.
Validated == IsSet /\ isSupported(call.arg) /\ call.arg # call.cur

\* The names of the signals the last call emitted, in order.
Signals == [i \in 1..Len(emitted) |-> emitted[i].sig]

Count(sig) == Cardinality({i \in 1..Len(emitted) : emitted[i].sig = sig})

\* The last call left the selector, the settings and the translator as they were.
Untouched ==
    /\ m_currentLanguage = call.cur
    /\ settings = call.saved
    /\ installed = call.installed

\* The last call's first load failed and a later one (a fallback hop) succeeded.
FallbackLoaded == Len(attempts) >= 2 /\ attempts[Len(attempts)].ok

\* The system language as the last call saw it.
CallSystemLang == Left(call.systemLocale, 2)

\* The resources of the requested language, the system language and English
\* are all missing.
AllFail ==
    /\ ResourcePath(call.arg) \notin store
    /\ ResourcePath(CallSystemLang) \notin store
    /\ ResourcePath("en") \notin store

---------------------------------------------------------------------------
(* Properties.                                                             *)

\* C1: whenever the constructor or a setCurrentLanguage call has returned,
\* currentLanguage is one of the supported codes en, es, fr.
C1_CurrentLanguageSupported == Returned => isSupported(m_currentLanguage)

\* C2 (as stated): every request for a supported language other than the
\* current one emits exactly one currentLanguageChanged and exactly one
\* languageChanged in total.
C2_OncePerRequest ==
    Validated => Count("currentLanguageChanged") = 1 /\ Count("languageChanged") = 1

\* C2 (amended): every request for a supported language other than the current
\* one emits no failure, exactly one languageChanged, and currentLanguageChanged
\* once when the requested resource loads or every load fails, but twice (the
\* hop's and then the caller's) when a fallback hop loads.
C2_NotificationsPerRequest ==
    Validated =>
        Signals = IF FallbackLoaded
                  THEN <<"currentLanguageChanged", "currentLanguageChanged",
                         "languageChanged">>
                  ELSE <<"currentLanguageChanged", "languageChanged">>

C2_Witness == Validated /\ FallbackLoaded /\ m_currentLanguage # call.arg

\* C3: a request for a supported language c other than the current one whose
\* resource loads ends with currentLanguage = c, the saved preference = c, c's
\* resource installed, and exactly the pair currentLanguageChanged,
\* languageChanged emitted (no failure).
C3_LoadableRequest ==
    Validated /\ ResourcePath(call.arg) \in store =>
        /\ m_currentLanguage = call.arg
        /\ settings = call.arg
        /\ installed = ResourcePath(call.arg)
        /\ Signals = <<"currentLanguageChanged", "languageChanged">>

C3_Witness ==
    /\ Validated
    /\ ResourcePath(call.arg) \in store
    /\ call.saved # call.arg
    /\ call.installed # NoTranslator

\* C4: setCurrentLanguage("") leaves currentLanguage, the saved preference and
\* the installed translator unchanged and emits exactly one signal, a
\* languageLoadFailed carrying the empty input.
C4_EmptyRequest ==
    IsSet /\ call.arg = "" =>
        /\ Untouched
        /\ attempts = <<>>
        /\ Signals = <<"languageLoadFailed">>
        /\ emitted[1].language = ""

C4_Witness == IsSet /\ call.arg = "" /\ call.installed # NoTranslator

\* C5: setCurrentLanguage(x) for a non-empty unsupported x leaves
\* currentLanguage, the saved preference and the installed translator
\* unchanged and emits exactly one signal, a languageLoadFailed carrying x
\* whose reason lists en, es, fr in this order.
C5_UnsupportedRequest ==
    IsSet /\ call.arg # "" /\ ~isSupported(call.arg) =>
        /\ Untouched
        /\ attempts = <<>>
        /\ Signals = <<"languageLoadFailed">>
        /\ emitted[1].language = call.arg
        /\ emitted[1].reason = "Unsupported language. Available languages: en, es, fr"

C5_Witness ==
    /\ IsSet
    /\ call.arg = "de"
    /\ call.installed # NoTranslator
    /\ ResourcePath("de") \in store

\* C6: setCurrentLanguage called with the current language changes nothing,
\* tries no resource and emits no signal at all.
C6_NoOpRequest ==
    IsSet /\ call.arg = call.cur =>
        /\ Untouched
        /\ attempts = <<>>
        /\ emitted = <<>>

\* C7: when the resources of the requested language, of the system language
\* and of English all fail to load, a request for a supported language c other
\* than the current one ends with currentLanguage = c, and the only signals are
\* setCurrentLanguage's own pair: loadLanguage emits nothing and there is no
\* failure signal.
C7_TotalFailure ==
    Validated /\ AllFail =>
        /\ m_currentLanguage = call.arg
        /\ Signals = <<"currentLanguageChanged", "languageChanged">>
        /\ \A i \in 1..Len(emitted) : emitted[i].by = "setCurrentLanguage"

C7_Witness == Validated /\ AllFail /\ Len(attempts) = 3

\* C8: at construction a supported saved preference whose resource loads
\* becomes currentLanguage whatever the OS locale is, and the OS locale is not
\* queried; with an empty or unsupported saved preference, a supported system
\* language whose resource loads becomes currentLanguage.
C8_StartupPrecedence ==
    /\ IsConstruct /\ isSupported(call.saved) /\ ResourcePath(call.saved) \in store =>
           m_currentLanguage = call.saved /\ localeQueries = 0
    /\ IsConstruct /\ ~isSupported(call.saved) /\ isSupported(CallSystemLang)
           /\ ResourcePath(CallSystemLang) \in store =>
           m_currentLanguage = CallSystemLang

C8_Witness ==
    /\ IsConstruct
    /\ call.saved = "fr"
    /\ ResourcePath("fr") \in store
    /\ call.systemLocale = "es_ES"
    /\ ResourcePath("es") \in store

\* C9: at construction with an empty or unsupported saved preference and an
\* unsupported system language, currentLanguage is en once construction
\* completes, whatever the resource loads did.
C9_StartupDefault ==
    IsConstruct /\ ~isSupported(call.saved) /\ ~isSupported(CallSystemLang) =>
        m_currentLanguage = "en"

\* C10: a request for a supported language other than the current one writes
\* the saved preference exactly once, with the requested code, also when a
\* fallback hop or a total failure follows; construction and every other
\* request write nothing.
C10_PreferenceWrites ==
    Returned =>
        IF Validated
        THEN writes = <<call.arg>> /\ settings = call.arg
        ELSE writes = <<>> /\ settings = call.saved

C10_Witness ==
    /\ Validated
    /\ FallbackLoaded
    /\ m_currentLanguage # call.arg
    /\ settings = call.arg
    /\ call.saved # call.arg

\* C11: when a request for a supported language c other than the current one
\* was the latest such request before the controller was destroyed and c's
\* resource loads, a controller constructed afterwards over the same settings
\* and resources starts with currentLanguage = c, whatever the OS locale is and
\* whatever invalid or no-op requests followed the request.
C11_RestartRoundTrip ==
    IsConstruct /\ lastChange # "" /\ ResourcePath(lastChange) \in store =>
        m_currentLanguage = lastChange

C11_Witness ==
    /\ IsConstruct
    /\ lastChange = "fr"
    /\ ResourcePath("fr") \in store
    /\ call.systemLocale = "es_ES"
    /\ ResourcePath("es") \in store
    /\ m_currentLanguage = "fr"


\* C12: whenever the constructor or a setCurrentLanguage call has returned,
\* availableLanguages() is the list en, es, fr: each supported code once, in
\* this order, whatever requests were made.
C12_AvailableLanguagesFixed ==
    Returned => availableLanguages(Entry) = <<"en", "es", "fr">>

C12_Witness ==
    /\ Validated
    /\ FallbackLoaded
    /\ availableLanguages(Entry) = <<"en", "es", "fr">>

\* The language loadLanguage was called with by the last call.
Candidate ==
    IF IsConstruct
    THEN IF isSupported(call.saved) THEN call.saved
         ELSE IF isSupported(CallSystemLang) THEN CallSystemLang
         ELSE "en"
    ELSE call.arg

\* The last call ran loadLanguage.
RanLoad == IsConstruct \/ Validated

\* The fallback chain for candidate c and system language sl.
Chain(c, sl) ==
    <<c>> \o (IF sl # c THEN <<sl>> ELSE <<>>) \o (IF c # "en" THEN <<"en">> ELSE <<>>)

Loads(code) == ResourcePath(code) \in store

\* The number of steps of chain taken: up to the first that loads, else all.
Steps(chain) ==
    IF \E i \in 1..Len(chain) : Loads(chain[i])
    THEN CHOOSE i \in 1..Len(chain) :
             Loads(chain[i]) /\ \A j \in 1..(i - 1) : ~Loads(chain[j])
    ELSE Len(chain)

\* C13: loadLanguage for candidate c and system language sl tries c, then sl
\* (only when sl differs from c), then en (only when c is not en), and stops at
\* the first that loads; after a success currentLanguage is the code that
\* loaded; loadLanguage emits exactly one currentLanguageChanged when a
\* fallback (sl or en) loaded and nothing otherwise.
C13_FallbackOrder ==
    RanLoad =>
        LET chain == Chain(Candidate, CallSystemLang)
            n == Steps(chain)
            byLoad == SelectSeq(emitted, LAMBDA e : e.by = "loadLanguage")
        IN  /\ [i \in 1..Len(attempts) |-> attempts[i].language] = SubSeq(chain, 1, n)
            /\ \A i \in 1..Len(attempts) : attempts[i].ok = Loads(chain[i])
            /\ attempts[Len(attempts)].ok => m_currentLanguage = chain[n]
            /\ [i \in 1..Len(byLoad) |-> byLoad[i].sig] =
                   IF FallbackLoaded THEN <<"currentLanguageChanged">> ELSE <<>>

C13_Witness ==
    /\ RanLoad
    /\ Len(attempts) = 3
    /\ attempts[3].ok
    /\ m_currentLanguage = "en"
    /\ Candidate # "en"


\* C14: every construction and every setCurrentLanguage call makes at most
\* three resource activation attempts; after the chain has failed nothing is
\* tried again, and a call that did not reach loadLanguage tries nothing.
C14_AtMostThreeAttempts ==
    Returned =>
        /\ Len(attempts) <= 3
        /\ ~RanLoad => attempts = <<>>
        /\ \A i \in 1..(Len(attempts) - 1) : ~attempts[i].ok

C14_Witness ==
    /\ IsConstruct
    /\ Len(attempts) = 3
    /\ \A i \in 1..3 : ~attempts[i].ok

\* C15: whenever the constructor or a setCurrentLanguage call has returned,
\* the installed translator is either none or the resource of currentLanguage.
C15_InstalledMatchesCurrent ==
    Returned => installed = NoTranslator \/ installed = ResourcePath(m_currentLanguage)

C15_Witness ==
    /\ Validated
    /\ FallbackLoaded
    /\ m_currentLanguage # call.arg
    /\ installed = ResourcePath(m_currentLanguage)
    /\ call.installed # NoTranslator
    /\ call.installed # installed

\* C16: an activation attempt that fails leaves no translator installed, also
\* when one was installed before it; so after a loadLanguage run in which
\* every attempt failed no translator is installed.
C16_FailedAttemptDetaches ==
    Returned =>
        /\ \A i \in 1..Len(attempts) :
               ~attempts[i].ok => attempts[i].left = NoTranslator
        /\ attempts # <<>> /\ ~attempts[Len(attempts)].ok => installed = NoTranslator

C16_Witness ==
    /\ Validated
    /\ call.installed # NoTranslator
    /\ \A i \in 1..Len(attempts) : ~attempts[i].ok
    /\ installed = NoTranslator

\* C17: every signal a validated setCurrentLanguage call emits (a hop's and
\* the final pair) is emitted when currentLanguage already has the value it
\* has when the call returns and the preference is already written, and the
\* call ends with currentLanguageChanged followed by languageChanged.
C17_NotificationsSeeFinalState ==
    Validated =>
        LET n == Len(emitted)
        IN  /\ \A i \in 1..n : /\ emitted[i].cur = m_currentLanguage
                               /\ emitted[i].saved = call.arg
            /\ n >= 2
            /\ emitted[n - 1].sig = "currentLanguageChanged"
            /\ emitted[n - 1].by = "setCurrentLanguage"
            /\ emitted[n].sig = "languageChanged"
            /\ emitted[n].by = "setCurrentLanguage"

C17_Witness ==
    /\ Validated
    /\ FallbackLoaded
    /\ Len(emitted) = 3
    /\ emitted[1].by = "loadLanguage"
    /\ emitted[1].cur # call.arg
    /\ emitted[1].cur # call.cur

====
